---------------------------- MODULE Spec2Model ----------------------------
(***************************************************************************)
(* Model of src/src/metrics.ts: the MetricsClient push session, its        *)
(* recurring timer, the requests it has in flight at the Pushgateway, the   *)
(* promises returned by dispose(), the process-level uncaughtException      *)
(* hook and the MetricsClient.default singleton slot.                       *)
(***************************************************************************)
EXTENDS Naturals, Sequences, FiniteSets, Bags

\* ------------------------------------------------------------------ bounds
\* The calls a behaviour may make in total: setInterval calls, pushAdd calls
\* and dispose() calls, over all sessions (a construction makes two).
MaxCalls == 6

\* ------------------------------------------------------------------ inputs
\* options.metricsJobName values a caller passes (non-empty strings).
JobNames == {"svc", "batch"}

\* The labels start() builds from os.hostname() and os.userInfo().username.
DefaultLabels == [hostname |-> "host-1", username |-> "alice"]

\* The labels a caller of create() passes.
CallerLabels == {[instance |-> "a"]}

\* The error argument of a gateway callback: null, or a transport error.
NoError == "null"
Errors == {"ECONNREFUSED", "ETIMEDOUT"}

\* The value of _interval after pause(). The handle setInterval returns to a
\* session is identified by the session and the ordinal of the call: 1, 2, ...
Null == 0

\* ------------------------------------------------------------------- state
VARIABLES
    default,      \* MetricsClient._default: 0 (undefined) or a session
    sessions,     \* the MetricsClient instances constructed so far
    timers,       \* the event loop's active setInterval timers
    requests,     \* bag of gateway requests in flight (pushAdd / delete)
    promises,     \* the promises created by dispose() calls
    gateway       \* identities that have a series at the Pushgateway

vars == <<default, sessions, timers, requests, promises, gateway>>

Created == 1..Len(sessions)

\* get running(): !!this._interval
Running(s) == sessions[s]._interval # Null

\* this._params = { jobName, groupings }
Params(jobName, groupings) == [jobName |-> jobName, groupings |-> groupings]

Init ==
    /\ default = 0
    /\ sessions = <<>>
    /\ timers = {}
    /\ requests = EmptyBag
    /\ promises = <<>>
    /\ gateway = {}


\* ---------------------------------------------------------------- requests
\* this._pushgateway.pushAdd(this._params, callback)
PushRequest(st, s) ==
    [kind |-> "pushAdd", owner |-> s, params |-> st.sessions[s]._params,
     promise |-> 0]

\* Variant: the delete is addressed with the labels of getDefaultLabels().
DeleteRequestDefaultLabels(st, s, p) ==
    [kind |-> "delete", owner |-> s,
     params |-> Params(st.sessions[s]._params.jobName, DefaultLabels),
     promise |-> p]

\* this._pushgateway.delete(this._params, callback), inside promise p
DeleteRequest(st, s, p) ==
    [kind |-> "delete", owner |-> s, params |-> st.sessions[s]._params,
     promise |-> p]

\* -------------------------------------------------- the instance's methods
\* The part of the state the methods of MetricsClient read and write.
State ==
    [sessions |-> sessions, timers |-> timers, requests |-> requests,
     promises |-> promises]

Apply(st) ==
    /\ sessions' = st.sessions
    /\ timers' = st.timers
    /\ requests' = st.requests
    /\ promises' = st.promises

\* dispose() has been called on s (it created a promise).
DisposedIn(st, s) == \E p \in 1..Len(st.promises) : st.promises[p].owner = s

\* Variant: resume() clears the timer already armed before arming another.
resumeClearsPrevious(st, s) ==
    LET handle == st.sessions[s].armed + 1
    IN  [st EXCEPT !.sessions[s]._interval = handle,
                   !.sessions[s].armed = handle,
                   !.sessions[s].reused = @ \/ DisposedIn(st, s),
                   !.timers = {t \in @ : t.owner # s} \cup
                              {[owner |-> s, handle |-> handle, fired |-> 0]}]

\* resume(): this._interval = setInterval(() => this._pushStats(), ...).
\* The previous handle is overwritten, never cleared.
resume(st, s) ==
    LET handle == st.sessions[s].armed + 1
    IN  [st EXCEPT !.sessions[s]._interval = handle,
                   !.sessions[s].armed = handle,
                   !.sessions[s].reused = @ \/ DisposedIn(st, s),
                   !.timers = @ \cup {[owner |-> s, handle |-> handle,
                                       fired |-> 0]}]

\* Variant: pause() clears the session's most recently armed live timer,
\* whatever handle is stored.
pauseLatestTimer(st, s) ==
    LET own == {t \in st.timers : t.owner = s}
    IN  [st EXCEPT !.timers = {t \in @ : ~(t \in own /\
                                  \A u \in own : u.handle <= t.handle)},
                   !.sessions[s]._interval = Null]

\* Variant: pause() also aborts the session's pushes still in flight.
pauseCancelsInFlight(st, s) ==
    [st EXCEPT !.timers = {t \in @ : ~(t.owner = s /\
                                        t.handle = st.sessions[s]._interval)},
               !.sessions[s]._interval = Null,
               !.requests = @ (-) [r \in {PushRequest(st, s)} |->
                                      CopiesIn(r, st.requests)]]

\* pause(): clearInterval(this._interval); this._interval = null
pause(st, s) ==
    [st EXCEPT !.timers = {t \in @ : ~(t.owner = s /\
                                        t.handle = st.sessions[s]._interval)},
               !.sessions[s]._interval = Null]

\* Variant: a tick is skipped while an earlier push is still in flight.
pushStatsSerialized(st, s) ==
    IF CopiesIn(PushRequest(st, s), st.requests) > 0 THEN st
    ELSE [st EXCEPT !.requests = @ (+) SetToBag({PushRequest(st, s)}),
                    !.sessions[s].pushes = @ + 1]

\* _pushStats(): issue one pushAdd; the callback only logs.
pushStats(st, s) ==
    [st EXCEPT !.requests = @ (+) SetToBag({PushRequest(st, s)}),
               !.sessions[s].pushes = @ + 1]

\* dispose(): pause(), then a new promise wrapping one delete request.
dispose(st, s, origin) ==
    LET paused == pause(st, s)
        p == Len(st.promises) + 1
    IN  [paused EXCEPT
            !.promises = Append(@, [owner |-> s, origin |-> origin,
                                    state |-> "pending", error |-> NoError,
                                    reported |-> "none"]),
            !.requests = @ (+) SetToBag({DeleteRequest(paused, s, p)})]

\* Variant: the listener is registered with on() and stays registered.
hookStaysRegistered(st, s) == dispose(pause(st, s), s, "hook")

\* The listener of process.once("uncaughtException"): pause(); dispose().
\* once() removes the listener before it runs.
hook(st, s) ==
    dispose(pause([st EXCEPT !.sessions[s].hook = FALSE], s), s, "hook")

\* Variant: the constructor arms the timer without the immediate push.
constructWithoutPush(st, jobName, groupings) ==
    LET s == Len(st.sessions) + 1
        fresh == [_interval |-> Null,
                  _params |-> Params(jobName, groupings),
                  hook |-> TRUE, pushes |-> 0, armed |-> 0,
                  reused |-> FALSE]
    IN  resume([st EXCEPT !.sessions = Append(@, fresh)], s)

\* constructor: _params, the once-listener, _pushStats(), resume().
construct(st, jobName, groupings) ==
    LET s == Len(st.sessions) + 1
        fresh == [_interval |-> Null,
                  _params |-> Params(jobName, groupings),
                  hook |-> TRUE, pushes |-> 0, armed |-> 0,
                  reused |-> FALSE]
        made == [st EXCEPT !.sessions = Append(@, fresh)]
    IN  resume(pushStats(made, s), s)

\* emit("uncaughtException"): the listeners run in registration order.
RECURSIVE RunHooks(_, _)
RunHooks(st, s) ==
    IF s > Len(st.sessions) THEN st
    ELSE RunHooks(IF st.sessions[s].hook THEN hook(st, s) ELSE st, s + 1)

HooksArmed == {s \in Created : sessions[s].hook}

\* The calls made so far, and whether n more fit the bound.
RECURSIVE CallsOf(_, _)
CallsOf(ss, s) ==
    IF s = 0 THEN 0 ELSE ss[s].armed + ss[s].pushes + CallsOf(ss, s - 1)

Calls == CallsOf(sessions, Len(sessions)) + Len(promises)

Fits(n) == Calls + n <= MaxCalls

\* Variant: the callback resolves whatever the gateway reported.
DisposeCallbackAlwaysResolves(pr, error) == [pr EXCEPT !.state = "resolved"]

\* The dispose() callback: reject(error) if error, else resolve().
DisposeCallback(pr, error) ==
    IF error # NoError
    THEN [pr EXCEPT !.state = "rejected", !.error = error]
    ELSE [pr EXCEPT !.state = "resolved"]

\* ----------------------------------------------------------------- actions
\* Variant: create() disposes the held session and takes the slot.
CreateReplacesDefault(jobName, labels) ==
    /\ Fits(IF default # 0 THEN 3 ELSE 2)
    /\ LET old == IF default # 0 THEN dispose(State, default, "start")
                  ELSE State
           new == construct(old, jobName, labels)
       IN  /\ Apply(new)
           /\ default' = Len(new.sessions)
    /\ UNCHANGED gateway

\* MetricsClient.create(options, labels)
Create(jobName, labels) ==
    /\ Fits(2)
    /\ Apply(construct(State, jobName, labels))
    /\ UNCHANGED <<default, gateway>>

\* Variant: start() replaces the held session without disposing it.
StartWithoutDispose(jobName) ==
    /\ Fits(IF default # 0 THEN 3 ELSE 2)
    /\ LET new == construct(State, jobName, DefaultLabels)
       IN  /\ Apply(new)
           /\ default' = Len(new.sessions)
    /\ UNCHANGED gateway

\* MetricsClient.start(options)
Start(jobName) ==
    /\ Fits(IF default # 0 THEN 3 ELSE 2)
    /\ LET old == IF default # 0 THEN dispose(State, default, "start")
                  ELSE State
           new == construct(old, jobName, DefaultLabels)
       IN  /\ Apply(new)
           /\ default' = Len(new.sessions)
    /\ UNCHANGED gateway

\* A caller holding session s calls s.resume()
Resume(s) ==
    /\ Fits(1)
    /\ Apply(resume(State, s))
    /\ UNCHANGED <<default, gateway>>

\* A caller holding session s calls s.pause()
Pause(s) ==
    /\ Apply(pause(State, s))
    /\ UNCHANGED <<default, gateway>>

\* A caller holding session s calls s.dispose() and keeps the promise
Dispose(s) ==
    /\ Fits(1)
    /\ Apply(dispose(State, s, "caller"))
    /\ UNCHANGED <<default, gateway>>

\* Variant: the timer is a setTimeout: it is gone once it has fired.
TickOnce(t) ==
    /\ Fits(1)
    /\ Apply(pushStats([State EXCEPT !.timers = @ \ {t}], t.owner))
    /\ UNCHANGED <<default, gateway>>

\* One interval of timer t elapses: its callback runs this._pushStats()
Tick(t) ==
    /\ Fits(1)
    /\ LET fired == [State EXCEPT
                        !.timers = (@ \ {t}) \cup
                                   {[t EXCEPT !.fired = @ + 1]}]
       IN  Apply(pushStats(fired, t.owner))
    /\ UNCHANGED <<default, gateway>>

\* Variant: a failed push stops the session's timer.
PushCompleteStopsOnError(r, error) ==
    /\ r.kind = "pushAdd"
    /\ requests' = requests (-) SetToBag({r})
    /\ gateway' = IF error = NoError THEN gateway \cup {r.params} ELSE gateway
    /\ IF error = NoError
       THEN UNCHANGED <<sessions, timers>>
       ELSE /\ sessions' = pause(State, r.owner).sessions
            /\ timers' = pause(State, r.owner).timers
    /\ UNCHANGED <<default, promises>>

\* The gateway completes a pushAdd: the callback logs and returns.
PushComplete(r, error) ==
    /\ r.kind = "pushAdd"
    /\ requests' = requests (-) SetToBag({r})
    /\ gateway' = IF error = NoError THEN gateway \cup {r.params} ELSE gateway
    /\ UNCHANGED <<default, sessions, timers, promises>>

\* The gateway completes a delete: the callback settles the promise.
DeleteComplete(r, error) ==
    /\ r.kind = "delete"
    /\ requests' = requests (-) SetToBag({r})
    /\ promises' = [promises EXCEPT
                       ![r.promise] =
                           DisposeCallback([@ EXCEPT !.reported = error],
                                           error)]
    /\ gateway' = IF error = NoError THEN gateway \ {r.params} ELSE gateway
    /\ UNCHANGED <<default, sessions, timers>>

\* An exception reaches the top of the event loop.
UncaughtException ==
    /\ HooksArmed # {}
    /\ Fits(Cardinality(HooksArmed))
    /\ Apply(RunHooks(State, 1))
    /\ UNCHANGED <<default, gateway>>

Outcomes == {NoError} \cup Errors

Next ==
    \/ \E j \in JobNames : Start(j)
    \/ \E j \in JobNames, l \in CallerLabels : Create(j, l)
    \/ \E s \in Created : Resume(s)
    \/ \E s \in Created : Pause(s)
    \/ \E s \in Created : Dispose(s)
    \/ \E t \in timers : Tick(t)
    \/ \E r \in BagToSet(requests), e \in Outcomes : PushComplete(r, e)
    \/ \E r \in BagToSet(requests), e \in Outcomes : DeleteComplete(r, e)
    \/ UncaughtException

Spec == Init /\ [][Next]_vars

\* The program when every session is made by start() and the caller reaches
\* sessions only through MetricsClient.default.
NextStart ==
    \/ \E j \in JobNames : Start(j)
    \/ default # 0 /\ Resume(default)
    \/ default # 0 /\ Pause(default)
    \/ default # 0 /\ Dispose(default)
    \/ \E t \in timers : Tick(t)
    \/ \E r \in BagToSet(requests), e \in Outcomes : PushComplete(r, e)
    \/ \E r \in BagToSet(requests), e \in Outcomes : DeleteComplete(r, e)
    \/ UncaughtException

SpecStart == Init /\ [][NextStart]_vars

\* The sessions a behaviour can construct within the bound.
SessionIds == 1..(MaxCalls \div 2)

\* An interval of the timer whose handle session s stores elapses.
TickOf(s) ==
    /\ s \in Created
    /\ \E t \in timers :
          t.owner = s /\ t.handle = sessions[s]._interval /\ Tick(t)

\* The event loop fires every armed interval timer when its interval is up:
\* no timer stays due forever.
SpecLive == SpecStart /\ \A s \in SessionIds : WF_vars(TickOf(s))


\* ------------------------------------------------------------------ claims
PromiseIds == 1..Len(promises)

\* The push requests of session s still in flight.
InFlight(s) == CopiesIn(PushRequest(State, s), requests)

\* The delete request that promise p wraps.
DeleteOf(p) == DeleteRequest(State, promises[p].owner, p)

\* The ticks so far of the timer whose handle session s stores.
FiredOf(tm, s, h) == (CHOOSE t \in tm : t.owner = s /\ t.handle = h).fired

\* dispose() was called on s and its promise has settled.
Settled(s) ==
    \E p \in PromiseIds :
        promises[p].owner = s /\ promises[p].state # "pending"

\* C1: when every session is made by start(), at most one session has an
\* armed recurring timer.
C1_AtMostOneSessionArmed == Cardinality({t.owner : t \in timers}) <= 1

\* C2: once dispose() has been called on a session and its promise has
\* settled, the session issues no further push, as long as nobody calls
\* resume() on it again.
C2_NoPushAfterDispose ==
    [][\A s \in Created :
          (Settled(s) /\ ~sessions'[s].reused)
              => sessions'[s].pushes = sessions[s].pushes]_vars

\* C3: the promise of a dispose() call is pending exactly while its delete
\* request is in flight, resolves exactly when the gateway reported success,
\* rejects with the reported error exactly when it reported one, and never
\* changes once settled.
C3_PromiseFollowsDelete ==
    /\ [](\A p \in PromiseIds :
            /\ CopiesIn(DeleteOf(p), requests) =
                   (IF promises[p].state = "pending" THEN 1 ELSE 0)
            /\ promises[p].state = "pending" <=> promises[p].reported = "none"
            /\ promises[p].state = "resolved"
                   <=> promises[p].reported = NoError
            /\ promises[p].state = "rejected"
                   <=> (promises[p].reported \in Errors /\
                        promises[p].error = promises[p].reported))
    /\ [][\A p \in PromiseIds :
            promises[p].state # "pending" => promises'[p] = promises[p]]_vars

C3_Witness ==
    \E p, q \in PromiseIds :
        /\ promises[p].state = "rejected" /\ promises[p].error = "ETIMEDOUT"
        /\ promises[q].state = "resolved"

\* C4: a construction leaves the new session with exactly one push issued
\* and still in flight, running on one freshly armed timer, with no promise
\* of its own; and the completion of that first push, whatever it reports,
\* changes neither the sessions, the timers nor the promises.
C4_ConstructionPushesOnce ==
    [][/\ Len(sessions') # Len(sessions) =>
            LET s == Len(sessions')
            IN  /\ s = Len(sessions) + 1
                /\ sessions'[s].pushes = 1
                /\ CopiesIn([kind |-> "pushAdd", owner |-> s,
                             params |-> sessions'[s]._params, promise |-> 0],
                            requests') = 1
                /\ sessions'[s]._interval # Null
                /\ {t \in timers' : t.owner = s} =
                       {[owner |-> s, handle |-> sessions'[s]._interval,
                         fired |-> 0]}
                /\ \A p \in 1..Len(promises') : promises'[p].owner # s
       /\ \A s \in Created :
            (sessions[s].pushes = 1 /\ InFlight(s)' < InFlight(s))
                => UNCHANGED <<sessions, timers, promises>>]_vars

C4_Witness ==
    \E s \in Created :
        /\ sessions[s].pushes = 1 /\ InFlight(s) = 1
        /\ Running(s) /\ sessions[s].armed = 1

C6_PushCompletionChangesNothing ==
    [][/\ \A r \in BagToSet(requests) :
            (r.kind = "pushAdd" /\ CopiesIn(r, requests') < CopiesIn(r, requests))
                => /\ UNCHANGED <<default, sessions, timers, promises>>
                   /\ requests' = requests (-) SetToBag({r})
       /\ \A r \in BagToSet(requests), e \in Errors :
            PushComplete(r, e) => UNCHANGED gateway]_vars

\* Every push of a running session has completed and none left a series:
\* with no delete ever issued, each of them failed.
C6_Witness ==
    \E s \in Created :
        /\ sessions[s].pushes = 2 /\ InFlight(s) = 0
        /\ sessions[s]._params \notin gateway
        /\ promises = <<>>
        /\ Running(s)
        /\ \E t \in timers : t.owner = s /\ t.handle = sessions[s]._interval

\* C7: a session that is not running, and stays so, issues no push.
C7_PausedIssuesNoPush ==
    [][\A s \in Created :
          (~Running(s) /\ ~Running(s)')
              => sessions'[s].pushes = sessions[s].pushes]_vars

\* C8: a start() that finds a session in the slot leaves the slot on the one
\* session it constructed, the previous session paused, and that session's
\* delete request in flight under a promise still pending.
C8_StartReplacesHeldSession ==
    [][(default # 0 /\ default' # default) =>
          /\ Len(sessions') = Len(sessions) + 1
          /\ default' = Len(sessions')
          /\ sessions'[default]._interval = Null
          /\ \A t \in timers' :
                ~(t.owner = default /\ t.handle = sessions[default]._interval)
          /\ Len(promises') = Len(promises) + 1
          /\ LET p == Len(promises')
             IN  /\ promises'[p].owner = default
                 /\ promises'[p].state = "pending"
                 /\ CopiesIn([kind |-> "delete", owner |-> default,
                              params |-> sessions[default]._params,
                              promise |-> p], requests') = 1]_vars

C8_Witness ==
    /\ default = 2
    /\ ~Running(1)
    /\ \E p \in PromiseIds :
          /\ promises[p].owner = 1 /\ promises[p].origin = "start"
          /\ promises[p].state = "pending"
          /\ CopiesIn(DeleteOf(p), requests) = 1

\* C9: no step changes the identity of a session, and every request in
\* flight, push or delete, carries the identity of the session that issued it.
C9_IdentityFixed ==
    /\ [](\A r \in BagToSet(requests) :
            r.params = sessions[r.owner]._params)
    /\ [][\A s \in Created :
            sessions'[s]._params = sessions[s]._params]_vars

C9_Witness ==
    \E s \in Created, p \in PromiseIds :
        /\ sessions[s]._params.groupings \in CallerLabels
        /\ promises[p].owner = s
        /\ CopiesIn(DeleteOf(p), requests) = 1
        /\ InFlight(s) = 1
        /\ sessions[s].armed = 2

\* C10: a promise of dispose() is rejected only if it was returned to the
\* caller of an explicit dispose().
C10_OnlyCallerSeesRejection ==
    \A p \in PromiseIds :
        promises[p].state = "rejected" => promises[p].origin = "caller"

\* The promises of the dispose() calls made on s, by origin.
DisposalsOf(s, origins) ==
    {p \in PromiseIds : promises[p].owner = s /\ promises[p].origin \in origins}

\* C11: the fatal-error hook of a session has disposed it at most once, it
\* has done so exactly when its listener is no longer registered, and once
\* it has run no step makes it pause or dispose the session again.
C11_HookRunsOnce ==
    /\ [](\A s \in Created :
            /\ Cardinality(DisposalsOf(s, {"hook"})) <= 1
            /\ sessions[s].hook <=> DisposalsOf(s, {"hook"}) = {})
    /\ [][\A s \in Created :
            ~sessions[s].hook
                => /\ ~sessions'[s].hook
                   /\ DisposalsOf(s, {"hook"})' = DisposalsOf(s, {"hook"})
                   /\ (HooksArmed # {} /\ HooksArmed' = {})
                          => sessions'[s] = sessions[s]]_vars

\* The hook of session 1 has run; session 2 was constructed afterwards and a
\* further fatal error would run its hook.
C11_Witness ==
    /\ Len(sessions) = 2
    /\ Cardinality(DisposalsOf(1, {"hook"})) = 1
    /\ ~sessions[1].hook /\ sessions[2].hook
    /\ Fits(1)

\* C12: a session on which dispose() has been called is not running.
C12_DisposedIsTerminal ==
    \A s \in Created : DisposedIn(State, s) => ~Running(s)

\* C13: a step that constructs a session with a caller's labels leaves the
\* slot, every existing session, their timers and the promises as they
\* were, issues no delete, and the new session is not the held one.
C13_CreateLeavesSlotAlone ==
    [][(Len(sessions') # Len(sessions) /\
        sessions'[Len(sessions')]._params.groupings \in CallerLabels)
          => /\ default' = default
             /\ Len(sessions') # default
             /\ \A s \in Created : sessions'[s] = sessions[s]
             /\ timers \subseteq timers'
             /\ promises' = promises
             /\ \A r \in BagToSet(requests') : r.kind = "delete" =>
                    CopiesIn(r, requests') = CopiesIn(r, requests)]_vars

C13_Witness ==
    /\ default = 1 /\ Len(sessions) = 2
    /\ sessions[2]._params.groupings \in CallerLabels
    /\ Running(1) /\ Running(2)
    /\ promises = <<>>

\* C14: pause() leaves the session not running with no timer under the
\* handle it stored, a second pause() changes nothing, and pause() on a
\* session that is not running changes nothing.
C14_PauseIdempotent ==
    \A s \in Created :
        LET once == pause(State, s)
        IN  /\ once.sessions[s]._interval = Null
            /\ \A t \in once.timers :
                  ~(t.owner = s /\ t.handle = sessions[s]._interval)
            /\ pause(once, s) = once
            /\ ~Running(s) => once = State

\* A paused session whose constructor's timer is still live.
C14_Witness ==
    \E s \in Created :
        /\ ~Running(s) /\ sessions[s].armed = 2
        /\ \E t \in timers : t.owner = s /\ t.handle = 1
        /\ ~DisposedIn(State, s)

\* C15: once the held session's series is at the gateway, pushed by no
\* session but the held one, the completion of a delete issued for another
\* session leaves it there.
C15_DeleteSparesNewSession ==
    [][\A p \in PromiseIds :
          (/\ default # 0
           /\ promises[p].owner # default
           /\ promises[p].origin = "start"
           /\ promises[p].state = "pending"
           /\ promises'[p].state # "pending"
           /\ sessions[default]._params \in gateway
           /\ \A s \in Created \ {default} :
                 sessions[s]._params = sessions[default]._params
                     => InFlight(s) = sessions[s].pushes)
              => sessions[default]._params \in gateway']_vars

\* C16: resume() on a running session adds one timer and removes none, and
\* while both the constructor's timer and the second one are live the
\* session has issued one push per tick of either.
C16_ResumeDoubleArms ==
    /\ [][\A s \in Created :
            (Running(s) /\ sessions'[s].armed = sessions[s].armed + 1)
                => /\ timers \subseteq timers'
                   /\ timers' \ timers =
                          {[owner |-> s, handle |-> sessions'[s]._interval,
                            fired |-> 0]}
                   /\ sessions'[s]._interval # sessions[s]._interval]_vars
    /\ [](\A s \in Created :
            (/\ sessions[s].armed = 2
             /\ \A h \in {1, 2} : \E t \in timers : t.owner = s /\ t.handle = h)
                => sessions[s].pushes =
                       1 + FiredOf(timers, s, 1) + FiredOf(timers, s, 2))

\* One interval has elapsed on both timers: two pushes were issued.
C16_Witness ==
    \E s \in Created :
        /\ sessions[s].armed = 2 /\ Running(s)
        /\ \A h \in {1, 2} :
              \E t \in timers : t.owner = s /\ t.handle = h /\ t.fired = 1
        /\ sessions[s].pushes = 3

\* C17: a step that stops a session from running takes none of its pushes
\* out of flight, and the completion of a push of a session that is not
\* running changes nothing but the requests in flight.
C17_InFlightSurvivesPause ==
    [][\A s \in Created :
          /\ (Running(s) /\ sessions'[s]._interval = Null)
                => InFlight(s)' = InFlight(s)
          /\ (~Running(s) /\ InFlight(s)' < InFlight(s))
                => /\ UNCHANGED <<default, sessions, timers, promises>>
                   /\ requests' =
                          requests (-) SetToBag({PushRequest(State, s)})]_vars

\* The only session was disposed, its delete succeeded, and its series is at
\* the gateway again: a push completed after the delete did.
C17_Witness ==
    /\ Len(sessions) = 1 /\ Len(promises) = 1
    /\ promises[1].state = "resolved"
    /\ ~Running(1) /\ sessions[1].armed = 1
    /\ InFlight(1) = 0
    /\ sessions[1]._params \in gateway

\* C19: at most one dispose() call, hence one delete request, is ever made
\* for a session.
C19_AtMostOneDelete ==
    \A s \in Created :
        Cardinality(DisposalsOf(s, {"caller", "start", "hook"})) <= 1

\* Whether session s exists and is running, and the pushes it has issued.
IsRunning(s) == IF s \in Created THEN Running(s) ELSE FALSE

PushesOf(s) == IF s \in Created THEN sessions[s].pushes ELSE 0

\* C18: at any time, whatever became of the pushes issued so far, a session
\* issues a further push later on unless it is, or comes to be, not running
\* (or the behaviour has used up the calls the model allows).
C18_NextTickRetries ==
    \A s \in SessionIds :
        \/ []<>(~IsRunning(s) \/ ~Fits(1))
        \/ []<><<PushesOf(s)' > PushesOf(s)>>_vars

\* A push of a running session has failed (it is no longer in flight,
\* nothing was deleted and no series exists), the session has not been
\* paused, and its timer has issued a further push.
C18_Witness ==
    \E s \in Created :
        /\ Running(s) /\ sessions[s].armed = 1
        /\ sessions[s].pushes = 2 /\ InFlight(s) = 1
        /\ promises = <<>>
        /\ sessions[s]._params \notin gateway

=============================================================================
